---- MODULE Spec2Model ----
(***************************************************************************)
(* Model of the request-reading slice of go-http: the Protocols bitset,    *)
(* readRequest with the request predicates, and fixPragmaCacheControl.     *)
(*                                                                         *)
(* Go strings are sequences of one-character strings; a header value is a  *)
(* sequence of comma-separated elements; a header map is a function from   *)
(* the keys present to the sequence of values of each key.                 *)
(***************************************************************************)
EXTENDS Integers, Sequences, FiniteSets, TLC

VARIABLES
    bits,       \* Protocols.bits of the value the Set methods act on
    rendered,   \* the bits String() was last called on
    str,        \* the result of that String() call, <<>> before any call
    applied,    \* members of str re-enabled so far on the fresh value
    rebuilt,    \* Protocols.bits of the fresh value being re-enabled
    in,         \* what the bufio.Reader holds for one readRequest call
    req,        \* the *http.Request readRequest returns
    err,        \* the error readRequest returns
    pc,         \* position of the caller of readRequest
    r,          \* the request handed to the request predicates
    ret,        \* the last predicate called on r and what it returned
    header,     \* the http.Header fixPragmaCacheControl acts on
    header0,    \* that header as it was before the first call
    calls       \* calls of fixPragmaCacheControl made so far

vars == <<bits, rendered, str, applied, rebuilt, in, req, err, pc, r, ret,
          header, header0, calls>>

protoVars == <<bits, rendered, str, applied, rebuilt>>
readVars == <<in, req, err, pc>>
predVars == <<r, ret>>
pragmaVars == <<header, header0, calls>>

\* nil values, one per type
NilRequest == [nil |-> TRUE]
NoError == <<"", <<>>>>
NoInput == [idle |-> TRUE]
NoReturn == [fn |-> "", val |-> FALSE]
NoHeader == <<>>

(***************************************************************************)
(* Bounds.                                                                 *)
(***************************************************************************)
MaxTargetLen == 5
MaxValues == 2
MaxCalls == 2

(***************************************************************************)
(* uint8 arithmetic for Protocols.bits.                                    *)
(***************************************************************************)
Uint8Width == 8

RECURSIVE BitAndW(_, _, _)
BitAndW(a, b, w) ==
    IF w = 0 THEN 0
    ELSE (IF a % 2 = 1 /\ b % 2 = 1 THEN 1 ELSE 0)
         + 2 * BitAndW(a \div 2, b \div 2, w - 1)

BitAnd(a, b) == BitAndW(a, b, Uint8Width)
BitOr(a, b) == a + b - BitAnd(a, b)
BitAndNot(a, b) == a - BitAnd(a, b)

protoHTTP1 == 1
protoHTTP2 == 2
protoUnencryptedHTTP2 == 4

HTTP1(b) == BitAnd(b, protoHTTP1) # 0
HTTP2(b) == BitAnd(b, protoHTTP2) # 0
UnencryptedHTTP2(b) == BitAnd(b, protoUnencryptedHTTP2) # 0

setBit(b, bit, ok) == IF ok THEN BitOr(b, bit) ELSE BitAndNot(b, bit)

RECURSIVE Join(_, _)
Join(s, sep) ==
    IF s = <<>> THEN <<>>
    ELSE IF Len(s) = 1 THEN <<s[1]>>
    ELSE <<s[1]>> \o sep \o Join(Tail(s), sep)

String_dupName(b) ==
    LET s1 == IF HTTP1(b) THEN <<"HTTP1">> ELSE <<>>
        s2 == IF HTTP2(b) THEN s1 \o <<"HTTP2">> ELSE s1
        s3 == IF UnencryptedHTTP2(b) THEN s2 \o <<"HTTP2">> ELSE s2
    IN  <<"{">> \o Join(s3, <<",">>) \o <<"}">>

String(b) ==
    LET s1 == IF HTTP1(b) THEN <<"HTTP1">> ELSE <<>>
        s2 == IF HTTP2(b) THEN s1 \o <<"HTTP2">> ELSE s1
        s3 == IF UnencryptedHTTP2(b) THEN s2 \o <<"UnencryptedHTTP2">> ELSE s2
    IN  <<"{">> \o Join(s3, <<",">>) \o <<"}">>

MemberNames == {"HTTP1", "HTTP2", "UnencryptedHTTP2"}

MemberBit(name) ==
    CASE name = "HTTP1" -> protoHTTP1
      [] name = "HTTP2" -> protoHTTP2
      [] name = "UnencryptedHTTP2" -> protoUnencryptedHTTP2

Named(s) == {s[i] : i \in 1..Len(s)} \cap MemberNames

SetHTTP1(ok) ==
    /\ bits' = setBit(bits, protoHTTP1, ok)
    /\ UNCHANGED <<rendered, str, applied, rebuilt>>

SetHTTP2(ok) ==
    /\ bits' = setBit(bits, protoHTTP2, ok)
    /\ UNCHANGED <<rendered, str, applied, rebuilt>>

SetUnencryptedHTTP2(ok) ==
    /\ bits' = setBit(bits, protoUnencryptedHTTP2, ok)
    /\ UNCHANGED <<rendered, str, applied, rebuilt>>

\* s := p.String(); var fresh Protocols
CallString ==
    /\ rendered' = bits
    /\ str' = String(bits)
    /\ applied' = {}
    /\ rebuilt' = 0
    /\ UNCHANGED bits

\* fresh.Set<name>(true) for a member named in s
ReEnable(name) ==
    /\ str # <<>>
    /\ name \in Named(str) \ applied
    /\ rebuilt' = setBit(rebuilt, MemberBit(name), TRUE)
    /\ applied' = applied \cup {name}
    /\ UNCHANGED <<bits, rendered, str>>

(***************************************************************************)
(* Strings.                                                                *)
(***************************************************************************)
SP == " "

\* strings.Index(s, c) for a one-character c, 1-based; 0 when absent
Index(s, c) ==
    IF \E i \in 1..Len(s) : s[i] = c
    THEN CHOOSE i \in 1..Len(s) : s[i] = c /\ \A j \in 1..(i - 1) : s[j] # c
    ELSE 0

\* strings.LastIndex(s, c), 1-based; 0 when absent
LastIndex(s, c) ==
    IF \E i \in 1..Len(s) : s[i] = c
    THEN CHOOSE i \in 1..Len(s) : s[i] = c /\ \A j \in (i + 1)..Len(s) : s[j] # c
    ELSE 0

Count(s, c) == Cardinality({i \in 1..Len(s) : s[i] = c})

HasPrefix(s, pre) ==
    Len(s) >= Len(pre) /\ SubSeq(s, 1, Len(pre)) = pre

\* strings.Cut(s, c) for a one-character separator c
Cut(s, c) ==
    LET i == Index(s, c)
    IN  IF i = 0
        THEN [before |-> s, after |-> <<>>, found |-> FALSE]
        ELSE [before |-> SubSeq(s, 1, i - 1),
              after |-> SubSeq(s, i + 1, Len(s)),
              found |-> TRUE]

Letters == {"A", "C", "D", "E", "G", "H", "I", "N", "O", "P", "R", "S", "T",
            "g", "h", "p", "t", "x"}
Digits == {"0", "1", "2", "4"}
\* characters of the RFC 7230 token set that are neither letters nor digits
TokenMarks == {"*", "%", "."}

GET == <<"G", "E", "T">>
PRI == <<"P", "R", "I">>
CONNECT == <<"C", "O", "N", "N", "E", "C", "T">>
HEAD == <<"H", "E", "A", "D">>
OPTIONS == <<"O", "P", "T", "I", "O", "N", "S">>
TRACE == <<"T", "R", "A", "C", "E">>
POST == <<"P", "O", "S", "T">>
HTTP10 == <<"H", "T", "T", "P", "/", "1", ".", "0">>
HTTP11 == <<"H", "T", "T", "P", "/", "1", ".", "1">>
HTTP20 == <<"H", "T", "T", "P", "/", "2", ".", "0">>
HTTPSLASH == <<"H", "T", "T", "P", "/">>
SchemePrefix == <<"h", "t", "t", "p", ":", "/", "/">>
SLASH == <<"/">>
STAR == <<"*">>

DigitValue(c) ==
    CASE c = "0" -> 0 [] c = "1" -> 1 [] c = "2" -> 2 [] c = "4" -> 4

(***************************************************************************)
(* Errors: a pair of the message and the value it quotes.                  *)
(***************************************************************************)
EOF == <<"EOF", <<>>>>
ErrUnexpectedEOF == <<"unexpected EOF", <<>>>>
ErrRead == <<"read: connection reset", <<>>>>
badStringError(what, val) == <<what, val>>

(***************************************************************************)
(* Start-line.                                                             *)
(***************************************************************************)
parseRequestLine_lastSpace(line) ==
    LET i == LastIndex(line, SP)
        head == IF i = 0 THEN line ELSE SubSeq(line, 1, i - 1)
        c1 == Cut(head, SP)
    IN  IF i = 0 \/ ~c1.found
        THEN [method |-> <<>>, requestURI |-> <<>>, proto |-> <<>>, ok |-> FALSE]
        ELSE [method |-> c1.before, requestURI |-> c1.after,
              proto |-> SubSeq(line, i + 1, Len(line)), ok |-> TRUE]

parseRequestLine(line) ==
    LET c1 == Cut(line, SP)
        c2 == Cut(c1.after, SP)
    IN  IF ~c1.found \/ ~c2.found
        THEN [method |-> <<>>, requestURI |-> <<>>, proto |-> <<>>, ok |-> FALSE]
        ELSE [method |-> c1.before, requestURI |-> c2.before,
              proto |-> c2.after, ok |-> TRUE]

\* httpguts.ValidHeaderFieldName
isToken(v) ==
    /\ Len(v) > 0
    /\ \A i \in 1..Len(v) : v[i] \in Letters \cup Digits \cup TokenMarks

validMethod(method) == isToken(method)

\* net/http.ParseHTTPVersion
ParseHTTPVersion(vers) ==
    IF vers = HTTP11 THEN [major |-> 1, minor |-> 1, ok |-> TRUE]
    ELSE IF vers = HTTP10 THEN [major |-> 1, minor |-> 0, ok |-> TRUE]
    ELSE IF /\ HasPrefix(vers, HTTPSLASH)
            /\ Len(vers) = Len(HTTP11)
            /\ vers[7] = "."
            /\ vers[6] \in Digits
            /\ vers[8] \in Digits
         THEN [major |-> DigitValue(vers[6]), minor |-> DigitValue(vers[8]),
               ok |-> TRUE]
         ELSE [major |-> 0, minor |-> 0, ok |-> FALSE]

(***************************************************************************)
(* net/url.ParseRequestURI, as called by readRequest.                      *)
(***************************************************************************)
ToLowerChar(c) ==
    CASE c = "A" -> "a" [] c = "C" -> "c" [] c = "D" -> "d" [] c = "E" -> "e"
      [] c = "G" -> "g" [] c = "H" -> "h" [] c = "I" -> "i" [] c = "N" -> "n"
      [] c = "O" -> "o" [] c = "P" -> "p" [] c = "R" -> "r" [] c = "S" -> "s"
      [] c = "T" -> "t" [] OTHER -> c

ToLower(s) == [i \in 1..Len(s) |-> ToLowerChar(s[i])]

EmptyURL ==
    [Scheme |-> <<>>, Opaque |-> <<>>, Host |-> <<>>, Path |-> <<>>,
     RawQuery |-> <<>>, ForceQuery |-> FALSE]

\* getScheme: the scan from 1-based position i
RECURSIVE getSchemeAt(_, _)
getSchemeAt(rawURL, i) ==
    IF i > Len(rawURL)
    THEN [scheme |-> <<>>, path |-> rawURL, err |-> NoError]
    ELSE LET c == rawURL[i] IN
         IF c \in Letters THEN getSchemeAt(rawURL, i + 1)
         ELSE IF c \in Digits \/ c \in {"+", "-", "."}
         THEN IF i = 1
              THEN [scheme |-> <<>>, path |-> rawURL, err |-> NoError]
              ELSE getSchemeAt(rawURL, i + 1)
         ELSE IF c = ":"
         THEN IF i = 1
              THEN [scheme |-> <<>>, path |-> <<>>,
                    err |-> <<"missing protocol scheme", rawURL>>]
              ELSE [scheme |-> SubSeq(rawURL, 1, i - 1),
                    path |-> SubSeq(rawURL, i + 1, Len(rawURL)),
                    err |-> NoError]
         ELSE [scheme |-> <<>>, path |-> rawURL, err |-> NoError]

getScheme(rawURL) == getSchemeAt(rawURL, 1)

ishex(c) == c \in Digits \cup {"A", "C", "D", "E"}

\* the character of the byte written %hi lo
UnhexChar(hi, lo) ==
    CASE <<hi, lo>> = <<"2", "0">> -> " "
      [] <<hi, lo>> = <<"2", "1">> -> "!"
      [] <<hi, lo>> = <<"2", "4">> -> "$"
      [] <<hi, lo>> = <<"4", "0">> -> "@"
      [] <<hi, lo>> = <<"4", "1">> -> "A"
      [] <<hi, lo>> = <<"4", "2">> -> "B"
      [] <<hi, lo>> = <<"4", "4">> -> "D"
      [] <<hi, lo>> = <<"4", "C">> -> "L"
      [] OTHER -> "\\x" \o hi \o lo

\* the text an EscapeError quotes: at most three bytes from position i
EscapeAt(s, i) == SubSeq(s, i, IF i + 2 > Len(s) THEN Len(s) ELSE i + 2)

\* a "%" at position i that two hex digits do not follow
BadEscape(s, i) ==
    /\ s[i] = "%"
    /\ \/ i + 2 > Len(s)
       \/ ~ishex(s[i + 1])
       \/ ~ishex(s[i + 2])

Least(S) == CHOOSE i \in S : \A j \in S : i <= j

\* the second pass of unescape: every %XX replaced by its byte
RECURSIVE Decode(_)
Decode(s) ==
    IF s = <<>> THEN <<>>
    ELSE IF s[1] = "%"
    THEN <<UnhexChar(s[2], s[3])>> \o Decode(SubSeq(s, 4, Len(s)))
    ELSE <<s[1]>> \o Decode(Tail(s))

\* unescape(s, encodePath)
unescapePath(s) ==
    LET bad == {i \in 1..Len(s) : BadEscape(s, i)}
    IN  IF bad # {}
        THEN [s |-> <<>>, err |-> <<"invalid URL escape", EscapeAt(s, Least(bad))>>]
        ELSE [s |-> Decode(s), err |-> NoError]

\* the characters shouldEscape(c, encodeHost) lets through
HostChars == Letters \cup Digits \cup {":", "*", ".", "-", "+"}

\* unhex(c) < 8
LowHex(c) == c \in {"0", "1", "2", "4"}

\* a well-formed %XX at position i that a host may not hold
ForbiddenHostEscape(s, i) ==
    /\ s[i] = "%"
    /\ ~BadEscape(s, i)
    /\ LowHex(s[i + 1])
    /\ SubSeq(s, i, i + 2) # <<"%", "2", "5">>

\* unescape(s, encodeHost): the first offending position decides the error
unescapeHost(s) ==
    LET bad == {i \in 1..Len(s) :
                    \/ BadEscape(s, i)
                    \/ ForbiddenHostEscape(s, i)
                    \/ s[i] # "%" /\ s[i] \notin HostChars}
    IN  IF bad = {} THEN [s |-> Decode(s), err |-> NoError]
        ELSE IF s[Least(bad)] = "%"
        THEN [s |-> <<>>, err |-> <<"invalid URL escape", EscapeAt(s, Least(bad))>>]
        ELSE [s |-> <<>>,
              err |-> <<"invalid character in host name", <<s[Least(bad)]>>>>]

validOptionalPort(port) ==
    \/ port = <<>>
    \/ /\ port[1] = ":"
       /\ \A i \in 2..Len(port) : port[i] \in Digits

\* parseHost for a host without brackets; strictColons is the urlstrictcolons
\* setting, under which a second colon is rejected
parseHost(host, strictColons) ==
    LET i == LastIndex(host, ":") IN
    IF i # 0 /\ ~validOptionalPort(SubSeq(host, i, Len(host)))
    THEN [s |-> <<>>, err |-> <<"invalid port after host", SubSeq(host, i, Len(host))>>]
    ELSE IF strictColons /\ Count(host, ":") > 1
    THEN [s |-> <<>>, err |-> <<"invalid port after host", SubSeq(host, i, Len(host))>>]
    ELSE unescapeHost(host)

ParseError(e) == [url |-> EmptyURL, err |-> e]

\* URL.setPath, given the unescaped path
setPathTo(u, path) ==
    IF path.err # NoError THEN ParseError(path.err)
    ELSE [url |-> [u EXCEPT !.Path = path.s], err |-> NoError]

setPath(u, p) == setPathTo(u, unescapePath(p))

\* url.User, url.Host, err = parseAuthority(authority), then setPath(rest)
withHost(u, host, rest) ==
    IF host.err # NoError THEN ParseError(host.err)
    ELSE setPath([u EXCEPT !.Host = host.s], rest)

\* authority, rest = rest[2:] split at the first "/" (k its position, 0 if none)
splitAuthorityAt(a, k) ==
    IF k = 0 THEN [authority |-> a, rest |-> <<>>]
    ELSE [authority |-> SubSeq(a, 1, k - 1), rest |-> SubSeq(a, k, Len(a))]

splitAuthority(a) == splitAuthorityAt(a, Index(a, "/"))

parseWithAuthority(u, sa, strictColons) ==
    withHost(u, parseHost(sa.authority, strictColons), sa.rest)

\* parse, once the scheme and the query are split off
parseRest(rawURL, u, rest, strictColons) ==
    IF ~HasPrefix(rest, SLASH)
    THEN IF u.Scheme # <<>>
         THEN [url |-> [u EXCEPT !.Opaque = rest], err |-> NoError]
         ELSE ParseError(<<"invalid URI for request", rawURL>>)
    ELSE IF u.Scheme # <<>> /\ HasPrefix(rest, <<"/", "/">>)
    THEN parseWithAuthority(u, splitAuthority(SubSeq(rest, 3, Len(rest))),
                            strictColons)
    ELSE setPath(u, rest)

queryCut(c) == [rest |-> c.before, RawQuery |-> c.after, ForceQuery |-> FALSE]

\* the split of rest at "?": a lone trailing "?" forces an empty query
splitQuery(p) ==
    IF Len(p) > 0 /\ p[Len(p)] = "?" /\ Count(p, "?") = 1
    THEN [rest |-> SubSeq(p, 1, Len(p) - 1), RawQuery |-> <<>>,
          ForceQuery |-> TRUE]
    ELSE queryCut(Cut(p, "?"))

parseAfterQuery(rawURL, scheme, sq, strictColons) ==
    parseRest(rawURL,
              [EmptyURL EXCEPT !.Scheme = scheme, !.RawQuery = sq.RawQuery,
                               !.ForceQuery = sq.ForceQuery],
              sq.rest, strictColons)

parseAfterScheme(rawURL, gs, strictColons) ==
    IF gs.err # NoError THEN ParseError(gs.err)
    ELSE parseAfterQuery(rawURL, ToLower(gs.scheme), splitQuery(gs.path),
                         strictColons)

\* parse(rawURL, viaRequest = true)
ParseRequestURI(rawURL, strictColons) ==
    IF rawURL = <<>> THEN ParseError(<<"empty url", rawURL>>)
    ELSE IF rawURL = STAR
    THEN [url |-> [EmptyURL EXCEPT !.Path = STAR], err |-> NoError]
    ELSE parseAfterScheme(rawURL, getScheme(rawURL), strictColons)

(***************************************************************************)
(* Headers.  A value is the sequence of its comma-separated elements, so   *)
(* "" is <<>> and "close, Upgrade" is <<"close", "Upgrade">>.              *)
(***************************************************************************)
HasKey(h, key) == key \in DOMAIN h

\* h[key], the nil slice when the key is absent
Values(h, key) == IF HasKey(h, key) THEN h[key] ELSE <<>>

\* http.Header.Get for a canonical key: the first value, or ""
Get(h, key) == IF Len(Values(h, key)) > 0 THEN Values(h, key)[1] ELSE <<>>

getFromHeader(h, key) == IF Len(Values(h, key)) > 0 THEN Values(h, key)[1] ELSE <<>>

LowerElem(e) ==
    CASE e = "Upgrade" -> "upgrade"
      [] e = "WebSocket" -> "websocket"
      [] e = "Keep-Alive" -> "keep-alive"
      [] e = "Close" -> "close"
      [] OTHER -> e

\* ascii.EqualFold(v, t) for a one-element lower-case t
EqualFold(v, t) == Len(v) = 1 /\ LowerElem(v[1]) = t

\* hasToken(v, token): some element of v is token, ASCII case-insensitively
hasToken(v, token) == \E i \in 1..Len(v) : LowerElem(v[i]) = token

\* httpguts.HeaderValuesContainsToken
HeaderValuesContainsToken(values, token) ==
    \E i \in 1..Len(values) : hasToken(values[i], token)

shouldClose(major, minor, h) ==
    IF major < 1 THEN TRUE
    ELSE LET conv == Values(h, "Connection")
             hasClose == HeaderValuesContainsToken(conv, "close")
         IN  IF major = 1 /\ minor = 0
             THEN hasClose \/ ~HeaderValuesContainsToken(conv, "keep-alive")
             ELSE hasClose

fixPragmaCacheControl_overwrite(h) ==
    IF /\ HasKey(h, "Pragma")
       /\ Len(h["Pragma"]) > 0
       /\ h["Pragma"][1] = <<"no-cache">>
    THEN [k \in DOMAIN h \cup {"Cache-Control"} |->
            IF k = "Cache-Control" THEN << <<"no-cache">> >> ELSE h[k]]
    ELSE h

fixPragmaCacheControl(h) ==
    IF /\ HasKey(h, "Pragma")
       /\ Len(h["Pragma"]) > 0
       /\ h["Pragma"][1] = <<"no-cache">>
       /\ ~HasKey(h, "Cache-Control")
    THEN [k \in DOMAIN h \cup {"Cache-Control"} |->
            IF k = "Cache-Control" THEN << <<"no-cache">> >> ELSE h[k]]
    ELSE h

(***************************************************************************)
(* readRequest.  The reader b is the outcome of each read made on it:      *)
(* rl of ReadLine, mh of ReadMIMEHeader, xf of readTransfer.               *)
(***************************************************************************)
NewRequest ==
    [Method |-> <<>>, RequestURI |-> <<>>, Proto |-> <<>>,
     ProtoMajor |-> 0, ProtoMinor |-> 0, URL |-> EmptyURL, Header |-> <<>>,
     Host |-> <<>>, Close |-> FALSE, ContentLength |-> 0]

isH2UpgradeRequest_anyProto(q) ==
    /\ q.Method = PRI
    /\ Cardinality(DOMAIN q.Header) = 0
    /\ q.URL.Path = STAR

isH2UpgradeRequest(q) ==
    /\ q.Method = PRI
    /\ Cardinality(DOMAIN q.Header) = 0
    /\ q.URL.Path = STAR
    /\ q.Proto = HTTP20

\* readTransfer on a request: the framing the body reader resolved
readTransfer(q, xf) ==
    IF xf.err # NoError THEN [req |-> q, err |-> xf.err]
    ELSE [req |-> [q EXCEPT !.ContentLength = xf.ContentLength], err |-> NoError]

Fail(e) == [req |-> NilRequest, err |-> e]

justAuthority_anyMethod(method, rawurl) == ~HasPrefix(rawurl, SLASH)

justAuthority(method, rawurl) == method = CONNECT /\ ~HasPrefix(rawurl, SLASH)

\* the preface adjustment and the final return
afterTransfer(rt) ==
    IF rt.err # NoError THEN Fail(rt.err)
    ELSE IF isH2UpgradeRequest(rt.req)
    THEN [req |-> [rt.req EXCEPT !.ContentLength = -1, !.Close = TRUE],
          err |-> NoError]
    ELSE [req |-> rt.req, err |-> NoError]

\* req.Close = shouldClose(...) on the fixed header, then readTransfer
withFixedHeader(b, q, fixed) ==
    afterTransfer(
        readTransfer([q EXCEPT !.Header = fixed,
                               !.Close = shouldClose(q.ProtoMajor, q.ProtoMinor, fixed)],
                     b.xf))

\* req.Header, the Host check, req.Host and fixPragmaCacheControl
afterHeader(b, q, hdr) ==
    IF Len(Values(hdr, "Host")) > 1
    THEN Fail(<<"too many Host headers", <<>>>>)
    ELSE withFixedHeader(
            b,
            [q EXCEPT !.Host = IF q.URL.Host = <<>>
                               THEN getFromHeader(hdr, "Host")
                               ELSE q.URL.Host],
            fixPragmaCacheControl(hdr))

readHeader(b, q) ==
    IF b.mh.err # NoError THEN Fail(b.mh.err)
    ELSE afterHeader(b, q, b.mh.header)

\* req.URL, with the bogus "http://" stripped back off
afterURL(b, q, ja, pu) ==
    IF pu.err # NoError THEN Fail(pu.err)
    ELSE readHeader(b, [q EXCEPT !.URL = IF ja THEN [pu.url EXCEPT !.Scheme = <<>>]
                                         ELSE pu.url])

parseTarget(b, q, ja) ==
    afterURL(b, q, ja,
             ParseRequestURI(IF ja THEN SchemePrefix \o q.RequestURI
                             ELSE q.RequestURI, b.strictColons))

afterVersion(b, q, pv) ==
    IF ~pv.ok THEN Fail(badStringError("malformed HTTP version", q.Proto))
    ELSE parseTarget(b, [q EXCEPT !.ProtoMajor = pv.major, !.ProtoMinor = pv.minor],
                     justAuthority(q.Method, q.RequestURI))

afterRequestLine(b, s, pl) ==
    IF ~pl.ok THEN Fail(badStringError("malformed HTTP request", s))
    ELSE IF ~validMethod(pl.method)
    THEN Fail(badStringError("invalid method", pl.method))
    ELSE afterVersion(b,
                      [NewRequest EXCEPT !.Method = pl.method,
                                         !.RequestURI = pl.requestURI,
                                         !.Proto = pl.proto],
                      ParseHTTPVersion(pl.proto))

\* readRequest from the start-line on, before the deferred function runs
readRequestLine(b) == afterRequestLine(b, b.rl.line, parseRequestLine(b.rl.line))

\* the deferred function: io.EOF becomes io.ErrUnexpectedEOF
deferred(res) == [res EXCEPT !.err = IF @ = EOF THEN ErrUnexpectedEOF ELSE @]

readRequest_noDefer(b) ==
    IF b.rl.err # NoError THEN Fail(b.rl.err)
    ELSE readRequestLine(b)

readRequest(b) ==
    IF b.rl.err # NoError THEN Fail(b.rl.err)
    ELSE deferred(readRequestLine(b))

\* req, err := readRequest(b)
ReadRequest ==
    /\ pc = "start"
    /\ req' = readRequest(in).req
    /\ err' = readRequest(in).err
    /\ pc' = "done"
    /\ UNCHANGED in

(***************************************************************************)
(* The request predicates.                                                 *)
(***************************************************************************)
valueOrDefault(value, def) == IF value # <<>> THEN value ELSE def

BodyReplayable(q) == q.Body = "nil" \/ q.Body = "NoBody" \/ q.GetBody # "nil"

isReplayableRequest_keyAlone(q) ==
    \/ /\ BodyReplayable(q)
       /\ valueOrDefault(q.Method, GET) \in {GET, HEAD, OPTIONS, TRACE}
    \/ HasKey(q.Header, "Idempotency-Key")
    \/ HasKey(q.Header, "X-Idempotency-Key")

isReplayableRequest_noXKey(q) ==
    IF BodyReplayable(q)
    THEN IF valueOrDefault(q.Method, GET) \in {GET, HEAD, OPTIONS, TRACE}
         THEN TRUE
         ELSE HasKey(q.Header, "Idempotency-Key")
    ELSE FALSE

isReplayableRequest(q) ==
    IF BodyReplayable(q)
    THEN IF valueOrDefault(q.Method, GET) \in {GET, HEAD, OPTIONS, TRACE}
         THEN TRUE
         ELSE LET exists == HasKey(q.Header, "Idempotency-Key")
              IN  IF ~exists THEN HasKey(q.Header, "X-Idempotency-Key")
                  ELSE TRUE
    ELSE FALSE

requestWantsHttp10KeepAlive_majorOnly(q) ==
    IF q.ProtoMajor # 1 THEN FALSE
    ELSE hasToken(getFromHeader(q.Header, "Connection"), "keep-alive")

requestWantsHttp10KeepAlive(q) ==
    IF q.ProtoMajor # 1 \/ q.ProtoMinor # 0 THEN FALSE
    ELSE hasToken(getFromHeader(q.Header, "Connection"), "keep-alive")

requestRequiresHTTP1_exactCase(q) ==
    /\ hasToken(Get(q.Header, "Connection"), "upgrade")
    /\ Get(q.Header, "Upgrade") = <<"websocket">>

requestRequiresHTTP1(q) ==
    /\ hasToken(Get(q.Header, "Connection"), "upgrade")
    /\ EqualFold(Get(q.Header, "Upgrade"), "websocket")

CallIsReplayableRequest ==
    /\ r # NilRequest
    /\ ret' = [fn |-> "isReplayableRequest", val |-> isReplayableRequest(r)]
    /\ UNCHANGED r

CallRequestWantsHttp10KeepAlive ==
    /\ r # NilRequest
    /\ ret' = [fn |-> "requestWantsHttp10KeepAlive",
               val |-> requestWantsHttp10KeepAlive(r)]
    /\ UNCHANGED r

CallRequestRequiresHTTP1 ==
    /\ r # NilRequest
    /\ ret' = [fn |-> "requestRequiresHTTP1", val |-> requestRequiresHTTP1(r)]
    /\ UNCHANGED r

\* fixPragmaCacheControl(header), as readRequest calls it
CallFixPragmaCacheControl ==
    /\ calls < MaxCalls
    /\ header' = fixPragmaCacheControl(header)
    /\ calls' = calls + 1
    /\ UNCHANGED header0

(***************************************************************************)
(* Inputs.                                                                 *)
(***************************************************************************)
\* every sequence over S of length at most n
SeqsUpTo(S, n) == UNION {[1..k -> S] : k \in 0..n}

\* every header over the keys of fields: fields[k] is the set of values key
\* k may hold, Absent standing for a missing key
Absent == << <<"<absent>">> >>
HeadersOver(fields) ==
    {[k \in {x \in DOMAIN f : f[x] # Absent} |-> f[k]] :
        f \in {g \in [DOMAIN fields -> UNION {fields[k] : k \in DOMAIN fields}] :
                  \A k \in DOMAIN fields : g[k] \in fields[k]}}

Seps == {<<>>, <<SP>>}
ReadMethods == {GET, CONNECT, PRI, <<>>, <<"G", "(">>}
ReadTargets == {SLASH, STAR, <<"g", ":", "4">>, <<":">>}
ReadVersions == {HTTP10, HTTP11, HTTP20, HTTP11 \o <<SP, "x">>, <<"H", "T", "T", "P">>}

NoParts == [m |-> <<>>, s1 |-> <<>>, t |-> <<>>, s2 |-> <<>>, v |-> <<>>]
LineOf(parts) == parts.m \o parts.s1 \o parts.t \o parts.s2 \o parts.v

ReadLineOutcomes ==
    {[line |-> LineOf(parts), err |-> NoError, parts |-> parts] :
        parts \in [m : ReadMethods, s1 : Seps, t : ReadTargets, s2 : Seps,
                   v : ReadVersions]}
    \cup {[line |-> <<>>, err |-> e, parts |-> NoParts] :
            e \in {EOF, ErrUnexpectedEOF, ErrRead}}

ReadHeaders ==
    { <<>>,
      [k \in {"Host"} |-> << <<"h">> >>],
      [k \in {"Host"} |-> << <<"h">>, <<"h">> >>],
      [k \in {"Connection"} |-> << <<"close">> >>],
      [k \in {"Connection"} |-> << <<"keep-alive">> >>],
      [k \in {"Pragma"} |-> << <<"no-cache">> >>] }

ReadHeaderOutcomes ==
    {[header |-> h, err |-> NoError] : h \in ReadHeaders}
    \cup {[header |-> <<>>, err |-> e] : e \in {EOF, ErrRead}}

ReadTransferOutcomes ==
    {[ContentLength |-> n, err |-> NoError] : n \in {-1, 0, 5}}
    \cup {[ContentLength |-> 0, err |-> e] : e \in {EOF, ErrRead}}

ReadInputs ==
    [rl : ReadLineOutcomes, mh : ReadHeaderOutcomes, xf : ReadTransferOutcomes,
     strictColons : {FALSE}]

URLAlphabet == {"g", "4", "/", "?", ":", "%"}

URLInputs ==
    {[rl |-> [line |-> LineOf(parts), err |-> NoError, parts |-> parts],
      mh |-> [header |-> <<>>, err |-> NoError],
      xf |-> [ContentLength |-> 0, err |-> NoError],
      strictColons |-> sc] :
        parts \in [m : {GET, CONNECT}, s1 : {<<SP>>},
                   t : SeqsUpTo(URLAlphabet, MaxTargetLen), s2 : {<<SP>>},
                   v : {HTTP11}],
        sc \in BOOLEAN}

PredRequest(method, body, getBody, h, major, minor) ==
    [Method |-> method, Body |-> body, GetBody |-> getBody, Header |-> h,
     ProtoMajor |-> major, ProtoMinor |-> minor]

KeyFields == {Absent, <<>>, << <<"k">> >>}

ReplayRequests ==
    {PredRequest(m, b, g, h, 1, 1) :
        m \in {<<>>, GET, HEAD, OPTIONS, TRACE, POST, <<"g", "e", "t">>},
        b \in {"nil", "NoBody", "body"},
        g \in {"nil", "func"},
        h \in HeadersOver([k \in {"Idempotency-Key", "X-Idempotency-Key"} |-> KeyFields])}

ConnectionValues ==
    {<<>>, <<"keep-alive">>, <<"upgrade">>, <<"close", "Keep-Alive">>,
     <<"close", "Upgrade">>}
UpgradeValues == {<<>>, <<"WebSocket">>, <<"h2c">>}
Versions == {<<0, 9>>, <<1, 0>>, <<1, 1>>, <<2, 0>>}

ConnRequests ==
    {PredRequest(GET, "nil", "nil", h, v[1], v[2]) :
        h \in HeadersOver(
                [k \in {"Connection", "Upgrade"} |->
                    IF k = "Connection"
                    THEN SeqsUpTo(ConnectionValues, MaxValues) \cup {Absent}
                    ELSE SeqsUpTo(UpgradeValues, MaxValues) \cup {Absent}]),
        v \in Versions}

PragmaHeaders ==
    HeadersOver(
        [k \in {"Pragma", "Cache-Control", "Accept"} |->
            IF k = "Pragma"
            THEN SeqsUpTo({<<"no-cache">>, <<"x">>}, MaxValues) \cup {Absent}
            ELSE IF k = "Cache-Control"
            THEN {Absent, <<>>, << <<"max-age=0">> >>, << <<"no-cache">> >>}
            ELSE {Absent, << <<"a">> >>}])

(***************************************************************************)
(* Specifications.                                                         *)
(***************************************************************************)
IdleRead == in = NoInput /\ req = NilRequest /\ err = NoError /\ pc = "idle"
IdlePred == r = NilRequest /\ ret = NoReturn
IdlePragma == header = NoHeader /\ header0 = NoHeader /\ calls = 0
IdleProto ==
    bits = 0 /\ rendered = 0 /\ str = <<>> /\ applied = {} /\ rebuilt = 0

InitProto == IdleProto /\ IdleRead /\ IdlePred /\ IdlePragma

NextProto ==
    \/ \E ok \in BOOLEAN : SetHTTP1(ok) /\ UNCHANGED <<readVars, predVars, pragmaVars>>
    \/ \E ok \in BOOLEAN : SetHTTP2(ok) /\ UNCHANGED <<readVars, predVars, pragmaVars>>
    \/ \E ok \in BOOLEAN : SetUnencryptedHTTP2(ok) /\ UNCHANGED <<readVars, predVars, pragmaVars>>
    \/ CallString /\ UNCHANGED <<readVars, predVars, pragmaVars>>
    \/ \E name \in MemberNames : ReEnable(name) /\ UNCHANGED <<readVars, predVars, pragmaVars>>

SpecProto == InitProto /\ [][NextProto]_vars

\* one readRequest call on each reader of ReadInputs
InitRead ==
    /\ in \in ReadInputs /\ req = NilRequest /\ err = NoError /\ pc = "start"
    /\ IdleProto /\ IdlePred /\ IdlePragma

NextRead == ReadRequest /\ UNCHANGED <<protoVars, predVars, pragmaVars>>

Spec == InitRead /\ [][NextRead]_vars

\* one readRequest call on each request-target over URLAlphabet
InitURL ==
    /\ in \in URLInputs /\ req = NilRequest /\ err = NoError /\ pc = "start"
    /\ IdleProto /\ IdlePred /\ IdlePragma

SpecURL == InitURL /\ [][NextRead]_vars

InitReplay ==
    /\ r \in ReplayRequests /\ ret = NoReturn
    /\ IdleProto /\ IdleRead /\ IdlePragma

NextReplay ==
    CallIsReplayableRequest /\ UNCHANGED <<protoVars, readVars, pragmaVars>>

SpecReplay == InitReplay /\ [][NextReplay]_vars

InitConn ==
    /\ r \in ConnRequests /\ ret = NoReturn
    /\ IdleProto /\ IdleRead /\ IdlePragma

NextConn ==
    \/ CallRequestWantsHttp10KeepAlive /\ UNCHANGED <<protoVars, readVars, pragmaVars>>
    \/ CallRequestRequiresHTTP1 /\ UNCHANGED <<protoVars, readVars, pragmaVars>>

SpecConn == InitConn /\ [][NextConn]_vars

InitPragma ==
    /\ header \in PragmaHeaders /\ header0 = header /\ calls = 0
    /\ IdleProto /\ IdleRead /\ IdlePred

NextPragma ==
    CallFixPragmaCacheControl /\ UNCHANGED <<protoVars, readVars, predVars>>

SpecPragma == InitPragma /\ [][NextPragma]_vars

(***************************************************************************)
(* Properties.                                                             *)
(***************************************************************************)
Returned == pc = "done" /\ err = NoError
Target == in.rl.parts.t

\* C1: a returned request that is the HTTP/2 preface (method PRI, no
\* headers, path "*", proto HTTP/2.0) has ContentLength -1 and Close true
\* whatever readTransfer and shouldClose assigned; any other returned
\* request keeps the ContentLength readTransfer set and the Close
\* shouldClose computed.
C1_PrefaceForcesLengthAndClose ==
    Returned =>
        IF /\ req.Method = PRI
           /\ DOMAIN req.Header = {}
           /\ req.URL.Path = STAR
           /\ req.Proto = HTTP20
        THEN req.ContentLength = -1 /\ req.Close = TRUE
        ELSE /\ req.ContentLength = in.xf.ContentLength
             /\ req.Close = shouldClose(req.ProtoMajor, req.ProtoMinor, req.Header)

C1_Witness ==
    /\ Returned
    /\ req.Method = PRI /\ req.Proto = HTTP20 /\ req.URL.Path = STAR
    /\ in.xf.ContentLength = 5
    /\ req.ContentLength = -1
    /\ req.Close = TRUE

\* C2: isReplayableRequest is true exactly when the body is nil, NoBody or
\* re-creatable through GetBody, and the method (empty meaning GET) is GET,
\* HEAD, OPTIONS or TRACE or the header has the key Idempotency-Key or
\* X-Idempotency-Key.
C2_ReplayableExactly ==
    ret.fn = "isReplayableRequest" =>
        ret.val =
            (/\ r.Body \in {"nil", "NoBody"} \/ r.GetBody = "func"
             /\ \/ (IF r.Method = <<>> THEN GET ELSE r.Method)
                        \in {GET, HEAD, OPTIONS, TRACE}
                \/ "Idempotency-Key" \in DOMAIN r.Header
                \/ "X-Idempotency-Key" \in DOMAIN r.Header)

C2_Witness ==
    /\ ret.fn = "isReplayableRequest"
    /\ r.Method = POST /\ r.Body = "body" /\ r.GetBody = "func"
    /\ DOMAIN r.Header = {"Idempotency-Key"}
    /\ ret.val = TRUE

HasIdempotencyKey ==
    \/ "Idempotency-Key" \in DOMAIN r.Header
    \/ "X-Idempotency-Key" \in DOMAIN r.Header

\* C3 as stated: a request whose header has Idempotency-Key or
\* X-Idempotency-Key is replayable, also when it has a body and no GetBody.
C3_Original_KeySufficient ==
    (ret.fn = "isReplayableRequest" /\ HasIdempotencyKey) => ret.val = TRUE

\* C3 as amended: a request whose header has Idempotency-Key or
\* X-Idempotency-Key is replayable exactly when its body is nil, NoBody or
\* re-creatable through GetBody; with a body and no GetBody it is not.
C3_KeyNeedsReplayableBody ==
    (ret.fn = "isReplayableRequest" /\ HasIdempotencyKey) =>
        ret.val = (r.Body \in {"nil", "NoBody"} \/ r.GetBody = "func")

C3_Witness ==
    /\ ret.fn = "isReplayableRequest"
    /\ r.Method = POST /\ r.Body = "body" /\ r.GetBody = "nil"
    /\ DOMAIN r.Header = {"X-Idempotency-Key"}
    /\ ret.val = FALSE

\* the start-line of b passes every check made before the header block is read
StartLineOK(b) ==
    LET pl == parseRequestLine(b.rl.line)
        ja == pl.method = CONNECT /\ ~HasPrefix(pl.requestURI, SLASH)
    IN  /\ pl.ok
        /\ validMethod(pl.method)
        /\ ParseHTTPVersion(pl.proto).ok
        /\ ParseRequestURI(IF ja THEN SchemePrefix \o pl.requestURI
                           ELSE pl.requestURI, b.strictColons).err = NoError

Normalised(e) == IF e = EOF THEN ErrUnexpectedEOF ELSE e

\* C4: an error of the first ReadLine, io.EOF included, is returned
\* unchanged; after a start-line was read io.EOF is never returned: an
\* io.EOF of ReadMIMEHeader or readTransfer comes back as
\* io.ErrUnexpectedEOF and any other error of theirs unchanged; and every
\* error comes with a nil request.
C4_EOFOnlyFromFirstReadLine ==
    pc = "done" =>
        /\ err # NoError => req = NilRequest
        /\ in.rl.err # NoError => err = in.rl.err
        /\ in.rl.err = NoError => err # EOF
        /\ (in.rl.err = NoError /\ StartLineOK(in) /\ in.mh.err # NoError)
                => err = Normalised(in.mh.err)
        /\ (/\ in.rl.err = NoError /\ StartLineOK(in) /\ in.mh.err = NoError
            /\ Len(Values(in.mh.header, "Host")) <= 1
            /\ in.xf.err # NoError)
                => err = Normalised(in.xf.err)

C4_Witness ==
    /\ pc = "done"
    /\ in.rl.err = NoError
    /\ in.mh.err = EOF
    /\ err = ErrUnexpectedEOF
    /\ req = NilRequest

\* C5: a line M SP T SP V with no space in M and T parses to (M, T, V,
\* true); a line with fewer than two spaces parses to ("", "", "", false)
\* and readRequest fails with "malformed HTTP request" quoting the line,
\* whatever its method, version and target are.
C5_ParseRequestLine ==
    (pc = "done" /\ in.rl.err = NoError) =>
        LET p == in.rl.parts
            line == in.rl.line
            res == parseRequestLine(line)
        IN  /\ (/\ p.s1 = <<SP>> /\ p.s2 = <<SP>>
                /\ Count(p.m, SP) = 0 /\ Count(p.t, SP) = 0)
                    => /\ res = [method |-> p.m, requestURI |-> p.t,
                                 proto |-> p.v, ok |-> TRUE]
                       /\ err # <<"malformed HTTP request", line>>
            /\ Count(line, SP) < 2
                    => /\ res = [method |-> <<>>, requestURI |-> <<>>,
                                 proto |-> <<>>, ok |-> FALSE]
                       /\ err = <<"malformed HTTP request", line>>
                       /\ req = NilRequest

C5_Witness ==
    /\ pc = "done"
    /\ in.rl.parts = [m |-> GET, s1 |-> <<SP>>, t |-> SLASH, s2 |-> <<SP>>,
                      v |-> HTTP11 \o <<SP, "x">>]
    /\ err = <<"malformed HTTP version", HTTP11 \o <<SP, "x">>>>

BeforeQuery(t) == Cut(t, "?").before
AuthorityOf(t) == Cut(BeforeQuery(t), "/").before

\* C6 as stated: CONNECT with a target not starting with "/" gives an empty
\* Scheme and Host equal to the authority; CONNECT with a target starting
\* with "/" gives an empty Scheme, an empty Host and Path equal to the
\* target; any other method is parsed from the target as received; and
\* RequestURI is the target as received.
C6_Original_PathIsTarget ==
    Returned =>
        /\ req.RequestURI = Target
        /\ IF req.Method = CONNECT /\ ~HasPrefix(Target, SLASH)
           THEN req.URL.Scheme = <<>> /\ req.URL.Host = AuthorityOf(Target)
           ELSE IF req.Method = CONNECT
           THEN /\ req.URL.Scheme = <<>>
                /\ req.URL.Host = <<>>
                /\ req.URL.Path = Target
           ELSE req.URL = ParseRequestURI(Target, in.strictColons).url

\* C6 as amended: as stated, except that for CONNECT with a target starting
\* with "/" the Path is the target up to its first "?", percent-decoded,
\* which is the target itself when it has neither "?" nor "%"; and the Host
\* of an authority target is the host[:port] it starts with, percent-decoded.
C6_ConnectTarget ==
    Returned =>
        /\ req.RequestURI = Target
        /\ IF req.Method = CONNECT /\ ~HasPrefix(Target, SLASH)
           THEN /\ req.URL.Scheme = <<>>
                /\ req.URL.Host = unescapeHost(AuthorityOf(Target)).s
           ELSE IF req.Method = CONNECT
           THEN /\ req.URL.Scheme = <<>>
                /\ req.URL.Host = <<>>
                /\ req.URL.Path = unescapePath(BeforeQuery(Target)).s
                /\ (Count(Target, "?") = 0 /\ Count(Target, "%") = 0)
                        => req.URL.Path = Target
           ELSE req.URL = ParseRequestURI(Target, in.strictColons).url

C6_Witness ==
    /\ Returned
    /\ req.Method = CONNECT
    /\ req.RequestURI = <<"/", "g", "?", "4">>
    /\ req.URL.Scheme = <<>> /\ req.URL.Host = <<>>
    /\ req.URL.Path = <<"/", "g">>

FirstConnection == IF "Connection" \in DOMAIN r.Header /\ r.Header["Connection"] # <<>>
                   THEN r.Header["Connection"][1] ELSE <<>>
FirstUpgrade == IF "Upgrade" \in DOMAIN r.Header /\ r.Header["Upgrade"] # <<>>
                THEN r.Header["Upgrade"][1] ELSE <<>>
HasElem(v, token) == \E i \in 1..Len(v) : LowerElem(v[i]) = token

\* C7 as stated: requestRequiresHTTP1 is true for every request whose
\* Connection header contains the token upgrade and whose Upgrade header is
\* not empty.
C7_Original_AnyUpgrade ==
    (/\ ret.fn = "requestRequiresHTTP1"
     /\ HasElem(FirstConnection, "upgrade")
     /\ FirstUpgrade # <<>>) => ret.val = TRUE

\* C7 as amended: requestRequiresHTTP1 is true exactly when the Connection
\* header contains the token upgrade and the Upgrade header is websocket,
\* compared without regard to ASCII case.
C7_WebSocketOnly ==
    ret.fn = "requestRequiresHTTP1" =>
        ret.val = (/\ HasElem(FirstConnection, "upgrade")
                   /\ Len(FirstUpgrade) = 1
                   /\ LowerElem(FirstUpgrade[1]) = "websocket")

C7_Witness ==
    /\ ret.fn = "requestRequiresHTTP1"
    /\ FirstConnection = <<"close", "Upgrade">>
    /\ FirstUpgrade = <<"WebSocket">>
    /\ ret.val = TRUE

\* C8: String() renders exactly the enabled members, in the order HTTP1,
\* HTTP2, UnencryptedHTTP2, comma-separated inside braces; re-enabling
\* exactly the members it names on the zero value gives back the rendered
\* bits; and no other value reachable through the Set methods renders to
\* the same string.
EnabledInOrder(b) ==
    SelectSeq(<<"HTTP1", "HTTP2", "UnencryptedHTTP2">>,
              LAMBDA n : (b \div MemberBit(n)) % 2 = 1)

C8_StringRoundTrip ==
    str # <<>> =>
        /\ str = <<"{">> \o Join(EnabledInOrder(rendered), <<",">>) \o <<"}">>
        /\ (applied = Named(str) => rebuilt = rendered)
        /\ (String(bits) = str => bits = rendered)

C8_Witness ==
    /\ rendered = protoHTTP1 + protoUnencryptedHTTP2
    /\ str = <<"{", "HTTP1", ",", "UnencryptedHTTP2", "}">>
    /\ applied = Named(str)
    /\ rebuilt = rendered
    /\ bits = protoHTTP2

\* C9: requestWantsHttp10KeepAlive is true exactly when the request is
\* HTTP/1.0 (ProtoMajor 1, ProtoMinor 0) and its Connection header contains
\* the token keep-alive; for every other version it is false.
C9_Http10KeepAlive ==
    ret.fn = "requestWantsHttp10KeepAlive" =>
        ret.val = (/\ r.ProtoMajor = 1
                   /\ r.ProtoMinor = 0
                   /\ HasElem(FirstConnection, "keep-alive"))

C9_Witness ==
    /\ ret.fn = "requestWantsHttp10KeepAlive"
    /\ r.ProtoMajor = 1 /\ r.ProtoMinor = 0
    /\ FirstConnection = <<"close", "Keep-Alive">>
    /\ ret.val = TRUE

NoCache == <<"no-cache">>
Untouched ==
    /\ DOMAIN header \ {"Cache-Control"} = DOMAIN header0 \ {"Cache-Control"}
    /\ \A k \in DOMAIN header0 : header[k] = header0[k]

\* C10 as stated: after fixPragmaCacheControl, a header that had some
\* Pragma value no-cache and no Cache-Control key has Cache-Control:
\* no-cache; an existing Cache-Control entry is kept, every other field is
\* unchanged, and a second call changes nothing.
C10_Original_AnyPragmaValue ==
    calls >= 1 =>
        /\ Untouched
        /\ (/\ "Pragma" \in DOMAIN header0
            /\ \E i \in 1..Len(header0["Pragma"]) : header0["Pragma"][i] = NoCache
            /\ "Cache-Control" \notin DOMAIN header0)
                => (/\ "Cache-Control" \in DOMAIN header
                    /\ header["Cache-Control"] = <<NoCache>>)

\* C10 as amended: after fixPragmaCacheControl, a header whose first Pragma
\* value is no-cache and which had no Cache-Control key has Cache-Control:
\* no-cache, and only such a header gains the key; an existing
\* Cache-Control entry is kept, every other field is unchanged, and a
\* second call changes nothing.
C10_FirstPragmaValue ==
    calls >= 1 =>
        /\ Untouched
        /\ IF /\ "Pragma" \in DOMAIN header0
              /\ header0["Pragma"] # <<>>
              /\ header0["Pragma"][1] = NoCache
              /\ "Cache-Control" \notin DOMAIN header0
           THEN /\ "Cache-Control" \in DOMAIN header
                /\ header["Cache-Control"] = <<NoCache>>
           ELSE header = header0

C10_Witness ==
    /\ calls = MaxCalls
    /\ "Pragma" \in DOMAIN header0 /\ header0["Pragma"] = <<NoCache>>
    /\ "Accept" \in DOMAIN header0
    /\ "Cache-Control" \notin DOMAIN header0
    /\ header["Cache-Control"] = <<NoCache>>
    /\ header["Accept"] = header0["Accept"]

====
